---- MODULE Spec2Model ----
(***************************************************************************)
(* Task Management API (src/server.ts): the credential store kept in       *)
(* users.json and the in-memory task collection, with one action per HTTP   *)
(* handler.  A step of the model is one whole request: the handler runs to  *)
(* its response, which is left in resp; the request is left in last.        *)
(***************************************************************************)
EXTENDS Integers, Sequences, FiniteSets, TLC

\* Bounds of the model.
MaxTasks == 2
MaxSalt == 2

VARIABLES
    tasks,      \* let tasks: Task[]                       (server.ts:160)
    usersFile,  \* the content of users.json               (server.ts:32)
    last,       \* the request handled last
    resp,       \* the response sent to it: [status, body]
    maxId,      \* the largest id any POST /task has returned so far
    registered  \* the {username, password} bodies POST /register answered with 201

vars == <<tasks, usersFile, last, resp, maxId, registered>>

----------------------------------------------------------------------------
\* Values

\* A property that is undefined in the JavaScript object.
Undefined == "undefined"

\* parseInt of a string that does not start with digits.
NaN == -1

\* Falsy values a request field or query parameter can take: absent or "".
Truthy(v) == v # Undefined /\ v # ""

\* body.k of a parsed JSON body or query: undefined when the key is absent.
Field(obj, k) == IF k \in DOMAIN obj THEN obj[k] ELSE Undefined

\* Date.prototype.toJSON, for the epoch milliseconds 0..9.
ToISOString(ms) == "1970-01-01T00:00:00.00" \o ToString(ms) \o "Z"

\* JSON.stringify of one property value: a Date becomes its ISO string.
JsonValue(k, v) == IF k = "creationDate" THEN ToISOString(v) ELSE v

\* JSON.stringify omits the properties whose value is undefined.
IsUndefinedAt(obj, k) == k \notin {"id", "creationDate"} /\ obj[k] = Undefined

\* res.json(task): the record as the client reads it.
ToJSON(obj) ==
    [k \in {x \in DOMAIN obj : ~IsUndefinedAt(obj, x)} |-> JsonValue(k, obj[k])]

Message(m) == [message |-> m]
NoBody == [empty |-> TRUE]
Response(status, body) == [status |-> status, body |-> body]

\* req.params.id as it arrives, and parseInt of it.
PathParams == {ToString(n) : n \in 1..(MaxTasks + 1)} \cup {"abc"}

ParseInt(s) ==
    IF \E n \in 0..(MaxTasks + 1) : ToString(n) = s
    THEN CHOOSE n \in 0..(MaxTasks + 1) : ToString(n) = s
    ELSE NaN

----------------------------------------------------------------------------
\* Task registry

\* tasks.findIndex(task => task.id === taskId), 1-based; 0 stands for -1.
FindIndex(ts, taskId) ==
    IF \E i \in 1..Len(ts) : ts[i].id = taskId
    THEN CHOOSE i \in 1..Len(ts) :
            ts[i].id = taskId /\ \A j \in 1..(i - 1) : ts[j].id # taskId
    ELSE 0

\* tasks.splice(taskIndex, 1)
Splice(ts, i) == [j \in 1..(Len(ts) - 1) |-> IF j < i THEN ts[j] ELSE ts[j + 1]]

\* id: tasks.length + 1
NextId(ts) == Len(ts) + 1

\* The newTask literal of POST /task.
NewTask(ts, body, now) ==
    [id           |-> NextId(ts),
     title        |-> Field(body, "title"),
     description  |-> Field(body, "description"),
     creationDate |-> now,
     dueDate      |-> Field(body, "dueDate"),
     assignedTo   |-> Field(body, "assignedTo"),
     category     |-> Field(body, "category"),
     status       |-> "Pending"]

\* Merge with the spreads in the wrong order: { ...req.body, ...tasks[taskIndex] }.
MergeTaskWins(task, body) ==
    [k \in DOMAIN task \cup DOMAIN body |->
        IF k \in DOMAIN task THEN task[k] ELSE body[k]]

\* { ...tasks[taskIndex], ...req.body }
Merge(task, body) ==
    [k \in DOMAIN task \cup DOMAIN body |->
        IF k \in DOMAIN body THEN body[k] ELSE task[k]]

NotFound == Response(404, Message("Task not found"))

\* The response of GET /task/:id in the collection ts.
GetTaskResponse(ts, param) ==
    LET taskIndex == FindIndex(ts, ParseInt(param))
    IN  IF taskIndex # 0 THEN Response(200, ToJSON(ts[taskIndex])) ELSE NotFound

\* The response of DELETE /task/:id in the collection ts.
DeleteTaskResponse(ts, param) ==
    IF FindIndex(ts, ParseInt(param)) # 0 THEN Response(204, NoBody) ELSE NotFound

\* FilterTasks with the category filter applied to tasks instead of to
\* filteredTasks, which drops the assignedTo filter when both are given.
FilterTasksRestarted(ts, query) ==
    LET assignedTo == Field(query, "assignedTo")
        category   == Field(query, "category")
        byUser     == IF Truthy(assignedTo)
                      THEN SelectSeq(ts, LAMBDA t : t.assignedTo = assignedTo)
                      ELSE ts
        byCategory == IF Truthy(category)
                      THEN SelectSeq(ts, LAMBDA t : t.category = category)
                      ELSE byUser
    IN  IF Truthy(assignedTo) \/ Truthy(category) THEN byCategory ELSE ts

\* The two filters of GET /tasks, applied in the handler's order.
FilterTasks(ts, query) ==
    LET assignedTo == Field(query, "assignedTo")
        category   == Field(query, "category")
        byUser     == IF Truthy(assignedTo)
                      THEN SelectSeq(ts, LAMBDA t : t.assignedTo = assignedTo)
                      ELSE ts
        byCategory == IF Truthy(category)
                      THEN SelectSeq(byUser, LAMBDA t : t.category = category)
                      ELSE byUser
    IN  IF Truthy(assignedTo) \/ Truthy(category) THEN byCategory ELSE ts

JsonList(ts) == [i \in 1..Len(ts) |-> ToJSON(ts[i])]

\* Request inputs.
Clock == {1}

CreateBodies ==
    { [title |-> "t1", description |-> "d1", assignedTo |-> "alice", category |-> "Work"],
      [title |-> "t1", description |-> "d1", dueDate |-> "2024-03-15",
       assignedTo |-> "bob", category |-> "Work", status |-> "Completed"] }

PutBodiesNoId ==
    { [x \in {} |-> Undefined],
      [status |-> "Completed"],
      [assignedTo |-> "bob", category |-> "Home"] }

PutBodies == PutBodiesNoId \cup { [id |-> 2] }

Queries ==
    { [x \in {} |-> Undefined],
      [assignedTo |-> "alice"], [assignedTo |-> ""],
      [category |-> "Home"],
      [assignedTo |-> "alice", category |-> "Work"],
      [assignedTo |-> "", category |-> "Work"] }

\* app.post('/task')
PostTask(body, now) ==
    /\ Len(tasks) < MaxTasks
    /\ LET newTask == NewTask(tasks, body, now)
       IN  /\ tasks' = Append(tasks, newTask)
           /\ resp' = Response(201, ToJSON(newTask))
           /\ maxId' = IF newTask.id > maxId THEN newTask.id ELSE maxId
    /\ last' = [op |-> "postTask", body |-> body]
    /\ UNCHANGED <<usersFile, registered>>

\* app.get('/task/:id')
GetTask(param) ==
    /\ resp' = GetTaskResponse(tasks, param)
    /\ last' = [op |-> "getTask", id |-> param]
    /\ UNCHANGED <<tasks, usersFile, maxId, registered>>

\* app.put('/task/:id')
PutTask(param, body) ==
    /\ LET taskIndex == FindIndex(tasks, ParseInt(param))
       IN  IF taskIndex # 0
           THEN /\ tasks' = [tasks EXCEPT ![taskIndex] = Merge(tasks[taskIndex], body)]
                /\ resp' = Response(200, ToJSON(tasks'[taskIndex]))
           ELSE /\ tasks' = tasks
                /\ resp' = NotFound
    /\ last' = [op |-> "putTask", id |-> param, body |-> body]
    /\ UNCHANGED <<usersFile, maxId, registered>>

\* app.delete('/task/:id')
DeleteTask(param) ==
    /\ LET taskIndex == FindIndex(tasks, ParseInt(param))
       IN  tasks' = IF taskIndex # 0 THEN Splice(tasks, taskIndex) ELSE tasks
    /\ resp' = DeleteTaskResponse(tasks, param)
    /\ last' = [op |-> "deleteTask", id |-> param]
    /\ UNCHANGED <<usersFile, maxId, registered>>

\* app.get('/tasks')
GetTasks(query) ==
    /\ resp' = Response(200, JsonList(FilterTasks(tasks, query)))
    /\ last' = [op |-> "getTasks", query |-> query]
    /\ UNCHANGED <<tasks, usersFile, maxId, registered>>

----------------------------------------------------------------------------
\* Credential store

\* bcrypt: the hash carries its salt; the digest is a function of salt and
\* password that collides for no two of them.
HashSync(password, salt) == [salt |-> salt, digest |-> <<salt, password>>]

\* bcrypt.compareSync: hash the password again under the salt of the hash.
CompareSync(password, hash) == HashSync(password, hash.salt) = hash

\* users.json holding JSON.stringify(users, null, 2).
JsonFile(users) == [parses |-> TRUE, users |-> users]

\* users.json cut short: writeFileSync opens the file with O_TRUNC, so a write
\* that throws after the open leaves text JSON.parse rejects, and no record.
Truncated == [parses |-> FALSE, users |-> <<>>]

\* What a call of writeFileSync can do: write the whole text, throw when
\* opening the file (EACCES, EROFS), or throw after the open truncated it
\* (ENOSPC, EFBIG, EIO).
WriteOutcomes == {"ok", "openFails", "writeFails"}

\* writeUsers: the file after writeFileSync(USERS_FILE, JSON.stringify(users)).
WriteUsers(file, users, write) ==
    CASE write = "ok" -> JsonFile(users)
      [] write = "openFails" -> file
      [] write = "writeFails" -> Truncated

\* readUsers: the parsed file, or [] when readFileSync or JSON.parse throws.
ReadUsers(file, readFails) == IF readFails \/ ~file.parses THEN <<>> ELSE file.users

\* users.some(user => user.username === username)
SomeUser(users, username) == \E i \in 1..Len(users) : users[i].username = username

\* users.find(u => u.username === username): its index, 0 for undefined.
FindUser(users, username) ==
    IF SomeUser(users, username)
    THEN CHOOSE i \in 1..Len(users) :
            users[i].username = username
            /\ \A j \in 1..(i - 1) : users[j].username # username
    ELSE 0

\* NewUser hashing the wrong variable.
NewUserHashingUsername(username, password, salt) ==
    [username |-> username, password |-> HashSync(username, salt)]

\* const newUser = { username, password: hashedPassword }
NewUser(username, password, salt) ==
    [username |-> username, password |-> HashSync(password, salt)]

FieldsRequired == Response(400, Message("Username and password are required"))
UsernameExists == Response(409, Message("Username already exists"))
Registered == Response(201, Message("User registered successfully"))
\* An unknown username answered apart from a wrong password.
UserNotFound == Response(404, Message("User not found"))
UnknownUser == Response(401, Message("Invalid username or password"))
WrongPassword == Response(401, Message("Invalid username or password"))
LoggedIn == Response(200, Message("Login successful"))
\* The error handling middleware, reached when a handler throws.
InternalError == Response(500, Message("Internal Server Error"))

\* The response of POST /login on the store file.
LoginResponse(file, body, readFails) ==
    LET username == Field(body, "username")
        password == Field(body, "password")
        users    == ReadUsers(file, readFails)
        user     == FindUser(users, username)
    IN  IF ~Truthy(username) \/ ~Truthy(password) THEN FieldsRequired
        ELSE IF user = 0 THEN UnknownUser
        ELSE IF ~CompareSync(password, users[user].password) THEN WrongPassword
        ELSE LoggedIn

Usernames == {"alice", "bob"}
Passwords == {"pw1", "pw2"}
Salts == 1..MaxSalt

\* Request bodies of /register and /login: a field may be absent or empty.
Credentials ==
    { [username |-> u, password |-> p] : u \in Usernames \cup {""}, p \in Passwords \cup {""} }
    \cup { [username |-> u] : u \in Usernames }
    \cup { [invalidKey |-> "invalidValue"] }

BothPresent(body) == Truthy(Field(body, "username")) /\ Truthy(Field(body, "password"))

\* app.post('/register'); salt is the salt bcrypt draws, readFails says
\* whether readFileSync throws and write is the outcome of writeFileSync.
Register(body, salt, readFails, write) ==
    LET username == Field(body, "username")
        password == Field(body, "password")
        users    == ReadUsers(usersFile, readFails)
        present  == Truthy(username) /\ Truthy(password)
        writes   == present /\ ~SomeUser(users, username)
    IN  /\ IF ~present
           THEN resp' = FieldsRequired /\ usersFile' = usersFile
           ELSE IF SomeUser(users, username)
           THEN resp' = UsernameExists /\ usersFile' = usersFile
           ELSE /\ usersFile' = WriteUsers(usersFile,
                                Append(users, NewUser(username, password, salt)), write)
                /\ resp' = IF write = "ok" THEN Registered ELSE InternalError
        /\ registered' = IF resp' = Registered THEN registered \cup {body} ELSE registered
        /\ last' = [op |-> "register", body |-> body,
                    readFailed |-> present /\ (readFails \/ ~usersFile.parses),
                    writeFailed |-> writes /\ write # "ok"]
        /\ UNCHANGED <<tasks, maxId>>

\* app.post('/login')
Login(body, readFails) ==
    /\ resp' = LoginResponse(usersFile, body, readFails)
    /\ last' = [op |-> "login", body |-> body,
                readFailed |-> BothPresent(body) /\ (readFails \/ ~usersFile.parses),
                writeFailed |-> FALSE]
    /\ UNCHANGED <<tasks, usersFile, maxId, registered>>

----------------------------------------------------------------------------
Init ==
    /\ tasks = <<>>
    /\ usersFile = JsonFile(<<>>)
    /\ last = [op |-> "none"]
    /\ resp = Response(0, NoBody)
    /\ maxId = 0
    /\ registered = {}

TaskRequests ==
    \/ \E body \in CreateBodies, now \in Clock : PostTask(body, now)
    \/ \E param \in PathParams : GetTask(param)
    \/ \E param \in PathParams : DeleteTask(param)
    \/ \E query \in Queries : GetTasks(query)

\* The task handlers, PUT bodies carrying any field of a task.
NextTasks ==
    \/ TaskRequests
    \/ \E param \in PathParams, body \in PutBodies : PutTask(param, body)

\* The task handlers, PUT bodies never carrying id.
NextTasksCallers ==
    \/ TaskRequests
    \/ \E param \in PathParams, body \in PutBodiesNoId : PutTask(param, body)

\* The credential handlers, the file operations failing or not.
NextUsers ==
    \/ \E body \in Credentials, salt \in Salts, readFails \in BOOLEAN, write \in WriteOutcomes :
          Register(body, salt, readFails, write)
    \/ \E body \in Credentials, readFails \in BOOLEAN : Login(body, readFails)

\* The credential handlers while users.json is readable and writable.
NextUsersFileOk ==
    \/ \E body \in Credentials, salt \in Salts : Register(body, salt, FALSE, "ok")
    \/ \E body \in Credentials : Login(body, FALSE)

Next == NextTasks \/ NextUsers

Spec == Init /\ [][Next]_vars
SpecUsers == Init /\ [][NextUsers]_vars
SpecUsersFileOk == Init /\ [][NextUsersFileOk]_vars
SpecTasks == Init /\ [][NextTasks]_vars
SpecTasksCallers == Init /\ [][NextTasksCallers]_vars

----------------------------------------------------------------------------
\* Properties of the task registry

TaskId(param) == ParseInt(param)

HasId(ts, taskId) == \E i \in 1..Len(ts) : ts[i].id = taskId

\* C1: the id a POST /task returns is strictly greater than every id an
\* earlier POST /task returned, ids of deleted tasks included.
C1_IdsNeverReused ==
    [][last'.op = "postTask" => resp'.body.id > maxId]_vars

\* C2: no two records of the task collection have the same id.
C2_UniqueIds ==
    \A i, j \in 1..Len(tasks) : i # j => tasks[i].id # tasks[j].id

\* C3: right after a DELETE /task/{id} answered 204, GET /task/{id} and a
\* second DELETE /task/{id} both answer 404.
C3_DeletedIsGone ==
    (last.op = "deleteTask" /\ resp.status = 204) =>
        /\ GetTaskResponse(tasks, last.id).status = 404
        /\ DeleteTaskResponse(tasks, last.id).status = 404

\* C4: right after POST /task returned a task with id i, GET /task/i answers
\* 200 with a record equal to the one the create returned.
C4_CreateThenGet ==
    last.op = "postTask" =>
        GetTaskResponse(tasks, ToString(resp.body.id)) = Response(200, resp.body)

\* The task t with each field the body supplies set to the supplied value.
WithSupplied(t, body) ==
    [k \in DOMAIN t |-> IF k \in DOMAIN body THEN body[k] ELSE t[k]]

\* A PUT step on an existing id answers 200, a following GET of that id shows
\* the old task with the supplied fields replaced, and the rest of the
\* collection, its order included, is as before.
PutEffect ==
    /\ resp'.status = 200
    /\ Len(tasks') = Len(tasks)
    /\ \E i \in 1..Len(tasks) :
          /\ tasks[i].id = TaskId(last'.id)
          /\ tasks'[i] = WithSupplied(tasks[i], last'.body)
          /\ resp'.body = ToJSON(WithSupplied(tasks[i], last'.body))
          /\ GetTaskResponse(tasks', last'.id) =
                Response(200, ToJSON(WithSupplied(tasks[i], last'.body)))
          /\ \A j \in 1..Len(tasks) : j # i => tasks'[j] = tasks[j]

PutOnExisting == last'.op = "putTask" /\ HasId(tasks, TaskId(last'.id))

\* The body leaves the id of the task at the path alone.
KeepsId(param, body) == "id" \notin DOMAIN body \/ body.id = TaskId(param)

\* C7 as stated: every PUT on an existing id, whatever fields it supplies,
\* has the effect PutEffect.
C7_PutAnyFields ==
    [][PutOnExisting => PutEffect]_vars

\* C7 amended: a PUT on an existing id whose body does not change the id has
\* the effect PutEffect.
C7_PutKeepingId ==
    [][(PutOnExisting /\ KeepsId(last'.id, last'.body)) => PutEffect]_vars

C7_Witness ==
    /\ last.op = "putTask"
    /\ resp.status = 200
    /\ "status" \in DOMAIN last.body
    /\ Len(tasks) = 2
    /\ tasks[2].id = TaskId(last.id)
    /\ tasks[1].status = "Pending"

\* The tasks of ts matching the conjunction of the filters the query gives,
\* in the order of ts; given(k) says whether the query gives filter k.
Matching(ts, query, given(_)) ==
    SelectSeq(ts, LAMBDA t :
        /\ given("assignedTo") => t.assignedTo = query.assignedTo
        /\ given("category") => t.category = query.category)

Present(query, k) == k \in DOMAIN query
NonEmpty(query, k) == k \in DOMAIN query /\ query[k] # ""

\* C8 as stated: GET /tasks answers 200 with the tasks matching every filter
\* present in the query, in insertion order, and leaves the collection alone.
C8_ListByPresentFilters ==
    [][last'.op = "getTasks" =>
        /\ tasks' = tasks
        /\ resp' = Response(200,
              JsonList(Matching(tasks, last'.query, LAMBDA k : Present(last'.query, k))))]_vars

\* C8 amended: a filter counts only when its value is a non-empty string; an
\* empty value is treated as if the parameter were not given.
C8_ListByNonEmptyFilters ==
    [][last'.op = "getTasks" =>
        /\ tasks' = tasks
        /\ resp' = Response(200,
              JsonList(Matching(tasks, last'.query, LAMBDA k : NonEmpty(last'.query, k))))]_vars

C8_Witness ==
    /\ last.op = "getTasks"
    /\ NonEmpty(last.query, "assignedTo")
    /\ NonEmpty(last.query, "category")
    /\ Len(tasks) = 2
    /\ Len(resp.body) = 1
    /\ resp.body[1].id = tasks[2].id

----------------------------------------------------------------------------
\* Properties of the credential store

\* The records users.json holds.
Stored(file) == file.users

UniqueUsernames(file) ==
    \A i, j \in 1..Len(file) : i # j => file[i].username # file[j].username

\* C5: no two records of the store have the same username; a register whose
\* username is that of an existing record answers 409 and leaves the store
\* as it was.
C5_DuplicateRejected ==
    [][/\ UniqueUsernames(Stored(usersFile'))
       /\ (/\ last'.op = "register"
           /\ BothPresent(last'.body)
           /\ SomeUser(Stored(usersFile), last'.body.username))
          => (resp'.status = 409 /\ usersFile' = usersFile)]_vars

\* C6: with users.json readable and writable, a register of a username not in
\* the store with a non-empty password answers 201, and every later login
\* with a registered username and password answers 200.
C6_RegisterThenLogin ==
    [][/\ (/\ last'.op = "register"
           /\ BothPresent(last'.body)
           /\ ~SomeUser(Stored(usersFile), last'.body.username))
          => (resp'.status = 201 /\ last'.body \in registered')
       /\ (last'.op = "login" /\ last'.body \in registered) => resp'.status = 200]_vars

C6_Witness ==
    /\ last.op = "login"
    /\ last.body \in registered
    /\ resp.status = 200
    /\ Len(Stored(usersFile)) = 2
    /\ Stored(usersFile)[1].username = last.body.username

\* The username of the body is in the store and the password does not verify.
PasswordMismatch(file, body) ==
    \E i \in 1..Len(file) :
        /\ file[i].username = body.username
        /\ ~CompareSync(body.password, file[i].password)

\* Both fields present, and the username unknown or the password wrong.
BadCredentials(file, body) ==
    /\ BothPresent(body)
    /\ ~SomeUser(file, body.username) \/ PasswordMismatch(file, body)

\* C9: a login with an unknown username and a login with a known username
\* and a wrong password get the same response, 401 with the same body, and
\* no login changes the store.
C9_LoginFailuresAlike ==
    [][last'.op = "login" =>
        /\ usersFile' = usersFile
        /\ BadCredentials(Stored(usersFile), last'.body) =>
              /\ resp'.status = 401
              /\ \A other \in Credentials :
                    BadCredentials(Stored(usersFile), other) =>
                        LoginResponse(usersFile, other, FALSE) = resp']_vars

C9_Witness ==
    /\ last.op = "login"
    /\ ~last.readFailed
    /\ BothPresent(last.body)
    /\ PasswordMismatch(Stored(usersFile), last.body)
    /\ resp.status = 401
    /\ \E other \in Credentials :
          BothPresent(other) /\ ~SomeUser(Stored(usersFile), other.username)

\* C10: a register or login that passed the presence check and whose read or
\* write of users.json failed answers 500 and leaves the persisted list as
\* it was.
C10_IoFailureIs500 ==
    [][(/\ last'.op \in {"register", "login"}
        /\ last'.readFailed \/ last'.writeFailed)
       => (resp'.status = 500 /\ usersFile' = usersFile)]_vars

====
